---- MODULE Spec2Model ----
(***************************************************************************)
(* Plant / fruit identification: the browser-side identifyImage (proxied,  *)
(* proxied-localized and direct builds, services/geminiService) and the    *)
(* serverless Boundary Handler (English and localized builds,              *)
(* netlify/functions/identify).                                            *)
(*                                                                         *)
(* Text is a sequence of characters.  A character is a record [cls, v]:    *)
(*   bt   a backtick                                                       *)
(*   sp   a space            (\s, JSON whitespace)                         *)
(*   nl   a newline          (\s, \n, JSON whitespace)                     *)
(*   w    a letter           (\w; no JSON value starts with it)            *)
(*   d    the digit 1        (\w; JSON number)                             *)
(*   kw   the literal null   (made of \w characters only), v = its value   *)
(*   lb, rb  the braces { and }                                            *)
(*   lit  a complete JSON literal that starts and ends with a character    *)
(*        that is neither \w nor \s nor a backtick (an object with         *)
(*        members, an array, a string), v = its value.  The regular        *)
(*        expression and trim() only ever look at its two ends, and the dot *)
(*        carries the s flag, so its inside cannot influence them.         *)
(***************************************************************************)
EXTENDS Integers, Sequences, FiniteSets, TLC

(***************************************************************************)
(* JavaScript / JSON values.  A property value is [t, s]; a JSON value is  *)
(* [t, n, f] with f the record of the properties the program reads.        *)
(***************************************************************************)
Absent == [t |-> "undefined", s |-> ""]
Str(x) == [t |-> "string", s |-> x]
Num(x) == [t |-> "number", s |-> x]

NoFields ==
  [name |-> Absent, description |-> Absent, error |-> Absent,
   message |-> Absent, imageData |-> Absent, mimeType |-> Absent]

Obj(f) == [t |-> "object", n |-> 0, f |-> f]
JNull == [t |-> "null", n |-> 0, f |-> NoFields]
\* the number written with k digits
JNum(k) == [t |-> "number", n |-> k, f |-> NoFields]
JArr == [t |-> "array", n |-> 0, f |-> NoFields]
JNone == [t |-> "none", n |-> 0, f |-> NoFields]

\* JavaScript truthiness of a property value: undefined, "" and 0 are falsy.
Truthy(p) ==
  \/ p.t = "string" /\ p.s # ""
  \/ p.t = "number" /\ p.s # "0"

\* a || b
OrElse(p, q) == IF Truthy(p) THEN p ELSE q

(***************************************************************************)
(* Characters and the character classes of the regular expression.         *)
(***************************************************************************)
Ch(c) == [cls |-> c, v |-> JNone]
Lit(v) == [cls |-> "lit", v |-> v]
bt == Ch("bt")
sp == Ch("sp")
nl == Ch("nl")
letter == Ch("w")
digit == Ch("d")
lb == Ch("lb")
rb == Ch("rb")
kwNull == [cls |-> "kw", v |-> JNull]

IsWord(c) == c.cls \in {"w", "d", "kw"}
IsSpace(c) == c.cls \in {"sp", "nl"}
IsNewline(c) == c.cls = "nl"
IsBacktick(c) == c.cls = "bt"

\* String.prototype.trim
RECURSIVE TrimStart(_)
TrimStart(s) ==
  IF s # <<>> /\ IsSpace(Head(s)) THEN TrimStart(Tail(s)) ELSE s

RECURSIVE TrimEnd(_)
TrimEnd(s) ==
  IF s # <<>> /\ IsSpace(s[Len(s)]) THEN TrimEnd(SubSeq(s, 1, Len(s) - 1)) ELSE s

trim(s) == TrimEnd(TrimStart(s))

\* fenceRegex: anchored at both ends, flag s (the dot matches newlines too):
\*   start, three backticks, an optional group 1 of word characters ( \w* )?,
\*   \s*, \n?, the lazy group 2 ( .*? ), \n?, \s*, three backticks, end.
\* A way to match is <<a, b, c, k>>: a characters for group 1, b for \s*,
\* c for \n?, k for group 2, the rest for the tail up to the end.  The
\* backtracking matcher returns the first way in its order of preference:
\* the greedy \w*, \s* and \n? take the most they can, the lazy group 2
\* the least.
AllIn(s, from, to, P(_)) == \A i \in from..to : P(s[i])

\* s from position j on matches the tail: \n?, \s*, three backticks, end
TailMatches(s, j) ==
  LET n == Len(s) IN
  /\ j <= n - 2
  /\ AllIn(s, n - 2, n, IsBacktick)
  /\ \E d \in {0, 1} :
       /\ j + d <= n - 2
       /\ d = 1 => IsNewline(s[j])
       /\ AllIn(s, j + d, n - 3, IsSpace)

FenceWays(s) ==
  LET n == Len(s) IN
  IF n < 3 \/ ~AllIn(s, 1, 3, IsBacktick) THEN {}
  ELSE UNION { UNION { UNION {
         { <<a, b, c, k>> : k \in { k \in 0..(n - 3 - a - b - c) :
                                     TailMatches(s, 4 + a + b + c + k) } }
         : c \in { c \in {0, 1} : c = 1 => /\ 4 + a + b <= n
                                           /\ IsNewline(s[4 + a + b]) } }
         : b \in { b \in 0..(n - 3 - a) : AllIn(s, 4 + a, 3 + a + b, IsSpace) } }
         : a \in { a \in 0..(n - 3) : AllIn(s, 4, 3 + a, IsWord) } }

Preferred(x, y) ==
  \/ x[1] > y[1]
  \/ x[1] = y[1] /\ x[2] > y[2]
  \/ x[1] = y[1] /\ x[2] = y[2] /\ x[3] > y[3]
  \/ x[1] = y[1] /\ x[2] = y[2] /\ x[3] = y[3] /\ x[4] <= y[4]

\* the expression without its group 1: a language tag is not skipped
fenceRegexNoTag(s) ==
  LET ways == { x \in FenceWays(s) : x[1] = 0 } IN
  IF ways = {} THEN [matched |-> FALSE, g2 |-> <<>>]
  ELSE LET m == CHOOSE x \in ways : \A y \in ways : Preferred(x, y)
           p == 3 + m[1] + m[2] + m[3]
       IN [matched |-> TRUE, g2 |-> SubSeq(s, p + 1, p + m[4])]

\* jsonStr.match(fenceRegex): null, or the match with its group 2
fenceRegex(s) ==
  LET ways == FenceWays(s) IN
  IF ways = {} THEN [matched |-> FALSE, g2 |-> <<>>]
  ELSE LET m == CHOOSE x \in ways : \A y \in ways : Preferred(x, y)
           p == 3 + m[1] + m[2] + m[3]
       IN [matched |-> TRUE, g2 |-> SubSeq(s, p + 1, p + m[4])]

\* let jsonStr = text.trim(); if (match && match[2]) jsonStr = match[2].trim()
StripFence(text) ==
  LET jsonStr == trim(text)
      match == fenceRegex(jsonStr)
  IN IF match.matched /\ match.g2 # <<>> THEN trim(match.g2) ELSE jsonStr

(***************************************************************************)
(* JSON.parse and JSON.stringify on this character set.                    *)
(***************************************************************************)
IsJsonSpace(c) == c.cls \in {"sp", "nl"}

RECURSIVE SkipStart(_)
SkipStart(s) ==
  IF s # <<>> /\ IsJsonSpace(Head(s)) THEN SkipStart(Tail(s)) ELSE s

RECURSIVE SkipEnd(_)
SkipEnd(s) ==
  IF s # <<>> /\ IsJsonSpace(s[Len(s)]) THEN SkipEnd(SubSeq(s, 1, Len(s) - 1)) ELSE s

\* [ok, v]: ok = FALSE is a thrown SyntaxError
JSONparse(s) ==
  LET b == SkipEnd(SkipStart(s))
      n == Len(b)
  IN IF n = 1 /\ b[1].cls \in {"kw", "lit"} THEN [ok |-> TRUE, v |-> b[1].v]
     ELSE IF n >= 1 /\ \A i \in 1..n : b[i].cls = "d" THEN [ok |-> TRUE, v |-> JNum(n)]
     ELSE IF /\ n >= 2
             /\ b[1].cls = "lb"
             /\ b[n].cls = "rb"
             /\ \A i \in 2..(n - 1) : IsJsonSpace(b[i])
          THEN [ok |-> TRUE, v |-> Obj(NoFields)]
     ELSE [ok |-> FALSE, v |-> JNone]

JSONstringify(v) ==
  IF v.t = "null" THEN <<kwNull>>
  ELSE IF v.t = "number" THEN [i \in 1..v.n |-> digit]
  ELSE IF v.t = "object" /\ v.f = NoFields THEN <<lb, rb>>
  ELSE <<Lit(v)>>

(***************************************************************************)
(* Thrown values: [isError, message].  isError is instanceof Error.        *)
(***************************************************************************)
Err(m) == [isError |-> TRUE, message |-> m]
NonError == [isError |-> FALSE, message |-> ""]
NoErr == [isError |-> FALSE, message |-> "<none>"]

\* the engine's messages for a failed JSON.parse and a property read on null
SyntaxError == Err("Unexpected token in JSON")
TypeError == Err("Cannot read properties of null")

\* What a network or library call can throw: an Error with a description,
\* an Error without one, a value that is no Error.
Thrown == {Err("Failed to fetch"), Err(""), NonError}

\* v.k: [threw, p]
Get(v, k) ==
  IF v.t = "null" THEN [threw |-> TRUE, p |-> Absent]
  ELSE [threw |-> FALSE, p |-> v.f[k]]

ErrObj(code, msg) == Obj([NoFields EXCEPT !.error = code, !.message = msg])

(***************************************************************************)
(* The texts of the two builds of each file.                               *)
(***************************************************************************)
CanonicalFallback ==
  "The image may not contain a recognizable plant or fruit, or the quality is too low."
LocalizedFallback ==
  "ຮູບພາບອາດຈະບໍ່ມີພືດ ຫຼື ໝາກໄມ້ທີ່ສາມາດກວດສອບໄດ້, ຫຼື ຄຸນນະພາບຂອງຮູບຕ່ຳເກີນໄປ."

\* netlify function, English build and localized build
HandlerText(build) ==
  IF build = "en"
  THEN [methodNotAllowed |-> "Method Not Allowed",
        onlyPost |-> "Only POST requests are accepted.",
        configurationError |-> "Configuration Error",
        keyNotConfigured |-> "API Key is not configured on the server.",
        bodyEmpty |-> "Request body is empty.",
        missingFields |-> "Missing imageData or mimeType in request body.",
        badRequest |-> "Bad Request",
        invalidBody |-> "Invalid request body.",
        notAString |-> "Invalid response format from AI: Text content is not a string.",
        unexpected |-> "An unexpected error occurred during identification with the AI model.",
        aiServiceError |-> "AI Service Error"]
  ELSE [methodNotAllowed |-> "ວິທີການບໍ່ໄດ້ຮັບອະນຸຍາດ",
        onlyPost |-> "ຮັບສະເພາະການຮ້ອງຂໍແບບ POST ເທົ່ານັ້ນ.",
        configurationError |-> "ຂໍ້ຜິດພາດການຕັ້ງຄ່າ",
        keyNotConfigured |-> "API Key ບໍ່ໄດ້ຖືກຕັ້ງຄ່າເທິງເຊີບເວີ.",
        bodyEmpty |-> "ເນື້ອໃນການຮ້ອງຂໍຫວ່າງເປົ່າ.",
        missingFields |-> "imageData ຫຼື mimeType ຂາດຫາຍໄປ ຫຼື ບໍ່ຖືກຕ້ອງໃນເນື້ອໃນການຮ້ອງຂໍ.",
        badRequest |-> "ການຮ້ອງຂໍບໍ່ຖືກຕ້ອງ",
        invalidBody |-> "ເນື້ອໃນການຮ້ອງຂໍບໍ່ຖືກຕ້ອງ.",
        notAString |-> "Invalid response format from AI: Text content is not a string.",
        unexpected |-> "ເກີດຂໍ້ຜິດພາດທີ່ບໍ່ຄາດຄິດໃນລະຫວ່າງການກວດສອບດ້ວຍແບບຈຳລອງ AI.",
        aiServiceError |-> "ຂໍ້ຜິດພາດຈາກບໍລິການ AI"]

\* geminiService, proxied build and proxied localized build
ProxiedText(build, status) ==
  IF build = "proxied"
  THEN [readFailed |-> "Failed to read base64 string from file.",
        networkError |-> "Network Error",
        requestFailed |-> "Request failed with status " \o ToString(status),
        apiError |-> "API Error",
        unexpected |-> "An unexpected error occurred while communicating with the identification service.",
        clientSideError |-> "Client-Side Error"]
  ELSE [readFailed |-> "ບໍ່ສາມາດອ່ານສະຕຣິງ base64 ຈາກໄຟລ໌ໄດ້.",
        networkError |-> "ຂໍ້ຜິດພາດເຄືອຂ່າຍ",
        requestFailed |-> "ການຮ້ອງຂໍລົ້ມເຫລວດ້ວຍສະຖານະ " \o ToString(status),
        apiError |-> "ຂໍ້ຜິດພາດ API",
        unexpected |-> "ເກີດຂໍ້ຜິດພາດທີ່ບໍ່ຄາດຄິດໃນຂະນະສື່ສານກັບບໍລິການກວດສອບ.",
        clientSideError |-> "ຂໍ້ຜິດພາດຝັ່ງລູກຄ້າ"]

\* geminiService, direct build
DirectText ==
  [readFailed |-> "Failed to read base64 string from file.",
   configurationError |-> "Configuration Error",
   keyNotConfigured |-> "ລະຫັດ API ບໍ່ໄດ້ຖືກຕັ້ງຄ່າ.",
   unexpected |-> "An unexpected error occurred during identification.",
   apiError |-> "API Error",
   connecting |-> "ເກີດຂໍ້ຜິດພາດໃນການເຊື່ອມຕໍ່ API: "]

(***************************************************************************)
(* Inputs.                                                                 *)
(***************************************************************************)
MaxSep == 1
MaxRaw == 2

Fence == <<bt, bt, bt>>

\* the runs of whitespace of length at most n
WsSeqs(n) == UNION { [1..k -> {sp, nl}] : k \in 0..n }
Pads == {<<>>, <<sp>>, <<nl>>, <<nl, sp>>}

Mango ==
  Obj([NoFields EXCEPT !.name = Str("Mango"), !.description = Str("A tropical fruit.")])
Unable == ErrObj(Str("Unable to identify"), Str(CanonicalFallback))
Blurry == ErrObj(Str("Unable to identify"), Str("Too blurry."))
NoMessage == ErrObj(Str("Unable to identify"), Absent)
EmptyError == ErrObj(Str(""), Str(CanonicalFallback))
OnlyDescription == Obj([NoFields EXCEPT !.description = Str("A leaf.")])
MangoWithMessage ==
  Obj([NoFields EXCEPT !.name = Str("Mango"), !.message = Str(CanonicalFallback)])

\* texts that are JSON
JsonBodies ==
  { <<Lit(v)>> : v \in {Mango, Unable, Blurry, NoMessage, EmptyError,
                        OnlyDescription, MangoWithMessage, JArr} }
  \cup {<<kwNull>>, <<digit>>, <<lb, rb>>}
\* texts that are not: "{not json", "json"
BrokenBodies == {<<lb, letter>>, <<letter>>}
FencedBodies ==
  {<<Lit(Mango)>>, <<Lit(Unable)>>, <<kwNull>>, <<digit>>, <<lb, rb>>, <<lb, letter>>}
Tags == {<<>>, <<letter>>}

Fenced(tag, osep, body, csep) == Fence \o tag \o osep \o body \o csep \o Fence

FencedTexts ==
  { Fenced(f[1], f[2], f[3], f[4]) :
      f \in Tags \X WsSeqs(MaxSep) \X FencedBodies \X WsSeqs(MaxSep) }

RawChars == {bt, sp, nl, letter, digit, lb, rb, kwNull, Lit(Mango)}
RawTexts == UNION { [1..k -> RawChars] : k \in 0..MaxRaw }

\* what the model may answer
ModelTexts ==
  RawTexts \cup
  { q[1] \o q[2] \o q[3] :
      q \in Pads \X (JsonBodies \cup BrokenBodies \cup FencedTexts) \X Pads }

\* request bodies sent to the function
ReqBody(imageData, mimeType) ==
  Obj([NoFields EXCEPT !.imageData = imageData, !.mimeType = mimeType])
RequestTexts ==
  { <<Lit(v)>> : v \in {ReqBody(Str("aGVsbG8="), Str("image/png")),
                        ReqBody(Str("aGVsbG8="), Absent),
                        ReqBody(Absent, Str("image/png")),
                        ReqBody(Num("1"), Str("image/png")),
                        ReqBody(Str("aGVsbG8="), Num("1")),
                        ReqBody(Str(""), Str("image/png")),
                        Mango, JArr} }
  \cup {<<>>, <<kwNull>>, <<digit>>, <<lb, rb>>, <<lb, letter>>}
Events ==
  [httpMethod : {"POST", "GET"}, hasBody : {TRUE}, body : RequestTexts]
  \cup [httpMethod : {"POST", "GET"}, hasBody : {FALSE}, body : {<<>>}]

\* the File handed to identifyImage: its type, and what reading it gives
Files == [type : {"", "image/png"}, content : {"data", "empty", "unreadable"}]

\* response bodies the client may receive
ResponseTexts ==
  JsonBodies \cup BrokenBodies \cup {<<>>}
  \cup { <<Lit(v)>> : v \in {ErrObj(Str("Bad Request"), Str("Request body is empty.")),
                             ErrObj(Str("AI Service Error"), Str("")),
                             ErrObj(Num("1"), Num("1")),
                             ErrObj(Absent, Str("Gateway timeout"))} }
Statuses == {200, 204, 400, 405, 500, 503}

(***************************************************************************)
(* The Boundary Handler: netlify/functions/identify, handler.              *)
(***************************************************************************)
Response(status, v) == [statusCode |-> status, body |-> JSONstringify(v)]
NoResponse == [statusCode |-> 0, body |-> <<>>]

Thrown1(e) == [threw |-> TRUE, err |-> e, v |-> JNone]
Returned(v) == [threw |-> FALSE, err |-> NoErr, v |-> v]

\* the try block that reads event.body, English build:
\*   if (!event.body) throw; body = JSON.parse(event.body);
\*   if (!body.imageData || !body.mimeType) throw
parseBodyEn(ev) ==
  LET T == HandlerText("en")
      p == JSONparse(ev.body)
  IN IF ~ev.hasBody \/ ev.body = <<>> THEN Thrown1(Err(T.bodyEmpty))
     ELSE IF ~p.ok THEN Thrown1(SyntaxError)
     ELSE IF Get(p.v, "imageData").threw THEN Thrown1(TypeError)
     ELSE IF ~Truthy(p.v.f.imageData) \/ ~Truthy(p.v.f.mimeType)
          THEN Thrown1(Err(T.missingFields))
     ELSE Returned(p.v)

\* the same block, localized build:
\*   if (typeof parsedBody.imageData !== 'string' || typeof parsedBody.mimeType !== 'string') throw
\*   body = { imageData: parsedBody.imageData, mimeType: parsedBody.mimeType }
parseBodyLo(ev) ==
  LET T == HandlerText("lo")
      p == JSONparse(ev.body)
  IN IF ~ev.hasBody \/ ev.body = <<>> THEN Thrown1(Err(T.bodyEmpty))
     ELSE IF ~p.ok THEN Thrown1(SyntaxError)
     ELSE IF Get(p.v, "imageData").threw THEN Thrown1(TypeError)
     ELSE IF p.v.f.imageData.t # "string" \/ p.v.f.mimeType.t # "string"
          THEN Thrown1(Err(T.missingFields))
     ELSE Returned(ReqBody(p.v.f.imageData, p.v.f.mimeType))

parseBody(build, ev) == IF build = "en" THEN parseBodyEn(ev) ELSE parseBodyLo(ev)

\* the checks with the credential tested before the method
handlerChecksKeyFirst(build, key, ev) ==
  LET T == HandlerText(build)
      b == parseBody(build, ev)
  IN IF ~key
     THEN [respond |-> TRUE, body |-> JNone,
           response |-> Response(500, ErrObj(Str(T.configurationError), Str(T.keyNotConfigured)))]
     ELSE IF ev.httpMethod # "POST"
     THEN [respond |-> TRUE, body |-> JNone,
           response |-> Response(405, ErrObj(Str(T.methodNotAllowed), Str(T.onlyPost)))]
     ELSE IF b.threw
     THEN [respond |-> TRUE, body |-> JNone,
           response |-> Response(400, ErrObj(Str(T.badRequest),
                          Str(IF b.err.isError THEN b.err.message ELSE T.invalidBody)))]
     ELSE [respond |-> FALSE, body |-> b.v, response |-> NoResponse]

\* the checks with the body read before the credential is tested
handlerChecksBodyFirst(build, key, ev) ==
  LET T == HandlerText(build)
      b == parseBody(build, ev)
  IN IF ev.httpMethod # "POST"
     THEN [respond |-> TRUE, body |-> JNone,
           response |-> Response(405, ErrObj(Str(T.methodNotAllowed), Str(T.onlyPost)))]
     ELSE IF b.threw
     THEN [respond |-> TRUE, body |-> JNone,
           response |-> Response(400, ErrObj(Str(T.badRequest),
                          Str(IF b.err.isError THEN b.err.message ELSE T.invalidBody)))]
     ELSE IF ~key
     THEN [respond |-> TRUE, body |-> JNone,
           response |-> Response(500, ErrObj(Str(T.configurationError), Str(T.keyNotConfigured)))]
     ELSE [respond |-> FALSE, body |-> b.v, response |-> NoResponse]

\* the handler up to the model call: [respond, response, body]
handlerChecks(build, key, ev) ==
  LET T == HandlerText(build)
      b == parseBody(build, ev)
  IN IF ev.httpMethod # "POST"
     THEN [respond |-> TRUE, body |-> JNone,
           response |-> Response(405, ErrObj(Str(T.methodNotAllowed), Str(T.onlyPost)))]
     ELSE IF ~key
     THEN [respond |-> TRUE, body |-> JNone,
           response |-> Response(500, ErrObj(Str(T.configurationError), Str(T.keyNotConfigured)))]
     ELSE IF b.threw
     THEN [respond |-> TRUE, body |-> JNone,
           response |-> Response(400, ErrObj(Str(T.badRequest),
                          Str(IF b.err.isError THEN b.err.message ELSE T.invalidBody)))]
     ELSE [respond |-> FALSE, body |-> b.v, response |-> NoResponse]

\* What the model call did: it returned a response with a text, one without,
\* or it threw.
ModelText(text) == [kind |-> "text", text |-> text, err |-> NoErr]
ModelNoText == [kind |-> "notext", text |-> <<>>, err |-> NoErr]
ModelThrew(e) == [kind |-> "throw", text |-> <<>>, err |-> e]
NoModelOut == [kind |-> "none", text |-> <<>>, err |-> NoErr]

\* a try block that swallows the parse failure
handlerTrySwallows(build, out) ==
  IF out.kind = "throw" THEN Thrown1(out.err)
  ELSE IF out.kind = "notext" THEN Thrown1(Err(HandlerText(build).notAString))
  ELSE LET parsedData == JSONparse(StripFence(out.text))
       IN IF ~parsedData.ok THEN Returned(Obj(NoFields)) ELSE Returned(parsedData.v)

\* the second try block, from the awaited generateContent to the return 200
handlerTry(build, out) ==
  IF out.kind = "throw" THEN Thrown1(out.err)
  ELSE IF out.kind = "notext" THEN Thrown1(Err(HandlerText(build).notAString))
  ELSE LET parsedData == JSONparse(StripFence(out.text))
       IN IF ~parsedData.ok THEN Thrown1(SyntaxError) ELSE Returned(parsedData.v)

\* a catch block that drops the failure's description
handlerCatchGeneric(build, e) ==
  LET T == HandlerText(build) IN
  Response(500, ErrObj(Str(T.aiServiceError), Str(T.unexpected)))

\* its catch block
handlerCatch(build, e) ==
  LET T == HandlerText(build) IN
  Response(500, ErrObj(Str(T.aiServiceError),
                       Str(IF e.isError THEN e.message ELSE T.unexpected)))

handlerAfterModel(build, out) ==
  LET r == handlerTry(build, out) IN
  IF r.threw THEN handlerCatch(build, r.err) ELSE Response(200, r.v)

(***************************************************************************)
(* The Request Dispatcher: services/geminiService, identifyImage.          *)
(***************************************************************************)
\* fileToBase64: resolves with the text after the comma of the data URL,
\* rejects with an Error when that text is empty, and with the reader's
\* error event (no Error) when the file cannot be read.
fileToBase64(build, f) ==
  IF f.content = "data" THEN [ok |-> TRUE, data |-> "aGVsbG8=", err |-> NoErr]
  ELSE IF f.content = "empty"
       THEN [ok |-> FALSE, data |-> "",
             err |-> Err(IF build = "direct" THEN DirectText.readFailed
                         ELSE ProxiedText(build, 0).readFailed)]
  ELSE [ok |-> FALSE, data |-> "", err |-> NonError]

\* imageFile.type || 'image/jpeg'
mimeTypeOf(f) == IF f.type # "" THEN f.type ELSE "image/jpeg"

\* the argument of fetch
fetchRequest(f, data) ==
  [httpMethod |-> "POST", hasBody |-> TRUE,
   body |-> JSONstringify(ReqBody(Str(data), Str(mimeTypeOf(f))))]
NoRequest == [httpMethod |-> "", hasBody |-> FALSE, body |-> <<>>]

\* What fetch did: a response with a status and a body, or a thrown value.
NetResponse(status, text) == [kind |-> "response", status |-> status, body |-> text, err |-> NoErr]
NetThrew(e) == [kind |-> "throw", status |-> 0, body |-> <<>>, err |-> e]
NoNet == [kind |-> "none", status |-> 0, body |-> <<>>, err |-> NoErr]

\* response.ok
ok(status) == status >= 200 /\ status <= 299

\* a 2xx branch that normalizes the body once more, as the direct build does
proxiedOnResponseNormalizes(build, status, text) ==
  LET T == ProxiedText(build, status)
      p == JSONparse(text)
      errorData == IF p.ok THEN p.v
                   ELSE ErrObj(Str(T.networkError), Str(T.requestFailed))
  IN IF ~ok(status)
     THEN IF Get(errorData, "error").threw THEN Thrown1(TypeError)
          ELSE Returned(ErrObj(OrElse(errorData.f.error, Str(T.apiError)),
                               OrElse(errorData.f.message, Str(T.requestFailed))))
     ELSE IF ~p.ok THEN Thrown1(SyntaxError)
     ELSE IF Truthy(p.v.f.error) /\ p.v.f.message = Str(CanonicalFallback)
          THEN Returned([p.v EXCEPT !.f.message = Str(LocalizedFallback)])
     ELSE Returned(p.v)

\* the fallback of response.json() with the code of the next statement
proxiedOnResponseApiError(build, status, text) ==
  LET T == ProxiedText(build, status)
      p == JSONparse(text)
      errorData == IF p.ok THEN p.v
                   ELSE ErrObj(Str(T.apiError), Str(T.requestFailed))
  IN IF ~ok(status)
     THEN IF Get(errorData, "error").threw THEN Thrown1(TypeError)
          ELSE Returned(ErrObj(OrElse(errorData.f.error, Str(T.apiError)),
                               OrElse(errorData.f.message, Str(T.requestFailed))))
     ELSE IF p.ok THEN Returned(p.v) ELSE Thrown1(SyntaxError)

\* proxied builds, the try block from the test of response.ok on
proxiedOnResponse(build, status, text) ==
  LET T == ProxiedText(build, status)
      p == JSONparse(text)
      errorData == IF p.ok THEN p.v
                   ELSE ErrObj(Str(T.networkError), Str(T.requestFailed))
  IN IF ~ok(status)
     THEN IF Get(errorData, "error").threw THEN Thrown1(TypeError)
          ELSE Returned(ErrObj(OrElse(errorData.f.error, Str(T.apiError)),
                               OrElse(errorData.f.message, Str(T.requestFailed))))
     ELSE IF p.ok THEN Returned(p.v) ELSE Thrown1(SyntaxError)

\* How the promise of identifyImage settles.
Resolved(v) == [settled |-> "resolved", value |-> v]
Rejected == [settled |-> "rejected", value |-> JNone]
Pending == [settled |-> "pending", value |-> JNone]

\* a catch block that throws the value on
proxiedCatchRethrows(build, e) == Rejected

\* proxied builds, the catch block
proxiedCatch(build, e) ==
  LET T == ProxiedText(build, 0) IN
  Resolved(ErrObj(Str(T.clientSideError),
                  Str(IF e.isError THEN e.message ELSE T.unexpected)))

\* a try block without the fallback translation
directTryNoReplace(out) ==
  IF out.kind = "throw" THEN Thrown1(out.err)
  ELSE IF out.kind = "notext" THEN Thrown1(TypeError)
  ELSE LET parsedData == JSONparse(StripFence(out.text))
       IN IF ~parsedData.ok THEN Thrown1(SyntaxError)
          ELSE IF Get(parsedData.v, "error").threw THEN Thrown1(TypeError)
          ELSE Returned(parsedData.v)

\* a try block that replaces the message of every error variant
directTryAnyMessage(out) ==
  IF out.kind = "throw" THEN Thrown1(out.err)
  ELSE IF out.kind = "notext" THEN Thrown1(TypeError)
  ELSE LET parsedData == JSONparse(StripFence(out.text))
       IN IF ~parsedData.ok THEN Thrown1(SyntaxError)
          ELSE IF Get(parsedData.v, "error").threw THEN Thrown1(TypeError)
          ELSE IF Truthy(parsedData.v.f.error)
               THEN Returned([parsedData.v EXCEPT !.f.message = Str(LocalizedFallback)])
          ELSE Returned(parsedData.v)

\* direct build, the try block from response.text.trim() to return parsedData
directTry(out) ==
  IF out.kind = "throw" THEN Thrown1(out.err)
  ELSE IF out.kind = "notext" THEN Thrown1(TypeError)
  ELSE LET parsedData == JSONparse(StripFence(out.text))
       IN IF ~parsedData.ok THEN Thrown1(SyntaxError)
          ELSE IF Get(parsedData.v, "error").threw THEN Thrown1(TypeError)
          ELSE IF /\ Truthy(parsedData.v.f.error)
                  /\ parsedData.v.f.message = Str(CanonicalFallback)
               THEN Returned([parsedData.v EXCEPT !.f.message = Str(LocalizedFallback)])
          ELSE Returned(parsedData.v)

\* direct build, the catch block
directCatch(e) ==
  Resolved(ErrObj(Str(DirectText.apiError),
                  Str(DirectText.connecting \o
                      (IF e.isError THEN e.message ELSE DirectText.unexpected))))

catch(build, e) == IF build = "direct" THEN directCatch(e) ELSE proxiedCatch(build, e)

settle(build, r) == IF r.threw THEN catch(build, r.err) ELSE Resolved(r.v)

(***************************************************************************)
(* State.  One invocation of the handler or one call of identifyImage      *)
(* runs from the initial state: neither keeps state between invocations.   *)
(***************************************************************************)
VARIABLES
  hBuild,      \* the build of the function that runs: "en", "lo"
  apiKey,      \* process.env.API_KEY is set
  event,       \* the HandlerEvent
  hPc,         \* "idle", "awaitModel", "done"
  body,        \* the handler's validated body
  response,    \* the handler's return value
  modelCalls,  \* calls of ai.models.generateContent
  modelOut,    \* what the awaited generateContent did
  dBuild,      \* the build of geminiService: "proxied", "proxiedLo", "direct"
  viteKey,     \* import.meta.env.VITE_API_KEY is set (direct build)
  imageFile,   \* the argument of identifyImage
  dPc,         \* "idle", "reading", "fetching", "generating", "done"
  request,     \* the argument of fetch
  fetches,     \* calls of fetch
  net,         \* what the awaited fetch did
  promise,     \* the promise identifyImage returned
  app          \* the App component: its state hooks, its preview URLs, its scans

vars ==
  <<hBuild, apiKey, event, hPc, body, response, modelCalls, modelOut,
    dBuild, viteKey, imageFile, dPc, request, fetches, net, promise, app>>
hVars == <<hBuild, apiKey, event, hPc, body, response>>
dVars == <<dBuild, viteKey, imageFile, dPc, request, fetches, net, promise>>

NoEvent == [httpMethod |-> "", hasBody |-> FALSE, body |-> <<>>]
NoFile == [type |-> "", content |-> ""]

\* previewUrl and scanResult are null, no request has settled
NoUrl == 0
NoScan == [id |-> 0, file |-> NoFile, result |-> JNull]
\* the state of the App component at its first render
AppState(build) ==
  [ build |-> build, mounted |-> TRUE,
    selectedFile |-> NoFile, previewUrl |-> NoUrl,
    isLoading |-> FALSE, scanResult |-> JNull,
    shownLoading |-> FALSE,   \* the isLoading of the last render
    created |-> 0,            \* URL.createObjectURL calls; the URLs are 1..created
    revoked |-> {},           \* the URLs given to URL.revokeObjectURL
    scans |-> 0,              \* calls of identifyImage
    inFlight |-> {},          \* the calls that have not settled
    settled |-> NoScan ]      \* the call that settled last
NoApp == [AppState("") EXCEPT !.mounted = FALSE]

Init ==
  /\ hBuild = "" /\ apiKey = FALSE /\ event = NoEvent /\ hPc = "idle"
  /\ body = JNone /\ response = NoResponse
  /\ modelCalls = 0 /\ modelOut = NoModelOut
  /\ dBuild = "" /\ viteKey = FALSE /\ imageFile = NoFile /\ dPc = "idle"
  /\ request = NoRequest /\ fetches = 0 /\ net = NoNet /\ promise = Pending
  /\ app = NoApp

Idle == hPc = "idle" /\ dPc = "idle" /\ app = NoApp

\* handler(event, context) up to its first return or to the awaited model call
Handler(build, key, ev) ==
  LET c == handlerChecks(build, key, ev) IN
  /\ Idle
  /\ hBuild' = build /\ apiKey' = key /\ event' = ev
  /\ IF c.respond
     THEN /\ hPc' = "done" /\ response' = c.response
          /\ UNCHANGED <<body, modelCalls>>
     ELSE /\ hPc' = "awaitModel" /\ body' = c.body
          /\ modelCalls' = modelCalls + 1
          /\ UNCHANGED response
  /\ UNCHANGED <<modelOut, dVars, app>>

\* a handler that calls the model again when the call has thrown
HandlerResumesRetries(out) ==
  /\ hPc = "awaitModel"
  /\ modelOut' = out
  /\ IF out.kind = "throw" /\ modelCalls < 3
     THEN /\ modelCalls' = modelCalls + 1
          /\ UNCHANGED <<hPc, response>>
     ELSE /\ response' = handlerAfterModel(hBuild, out)
          /\ hPc' = "done"
          /\ UNCHANGED modelCalls
  /\ UNCHANGED <<hBuild, apiKey, event, body, dVars, app>>

\* the awaited generateContent settles and the handler runs to its return
HandlerResumes(out) ==
  /\ hPc = "awaitModel"
  /\ modelOut' = out
  /\ response' = handlerAfterModel(hBuild, out)
  /\ hPc' = "done"
  /\ UNCHANGED <<hBuild, apiKey, event, body, modelCalls, dVars, app>>

\* identifyImage(imageFile) up to the awaited fileToBase64
IdentifyImage(build, key, f) ==
  /\ Idle
  /\ dBuild' = build /\ viteKey' = key /\ imageFile' = f
  /\ IF build = "direct" /\ ~key
     THEN /\ dPc' = "done"
          /\ promise' = Resolved(ErrObj(Str(DirectText.configurationError),
                                        Str(DirectText.keyNotConfigured)))
     ELSE /\ dPc' = "reading"
          /\ UNCHANGED promise
  /\ UNCHANGED <<request, fetches, net, modelCalls, modelOut, hVars, app>>

\* fileToBase64 settles: the catch block, or on to fetch / generateContent
ReaderSettles ==
  LET r == fileToBase64(dBuild, imageFile) IN
  /\ dPc = "reading"
  /\ IF ~r.ok
     THEN /\ dPc' = "done" /\ promise' = catch(dBuild, r.err)
          /\ UNCHANGED <<request, fetches, modelCalls>>
     ELSE IF dBuild = "direct"
     THEN /\ dPc' = "generating" /\ modelCalls' = modelCalls + 1
          /\ UNCHANGED <<request, fetches, promise>>
     ELSE /\ dPc' = "fetching" /\ fetches' = fetches + 1
          /\ request' = fetchRequest(imageFile, r.data)
          /\ UNCHANGED <<modelCalls, promise>>
  /\ UNCHANGED <<dBuild, viteKey, imageFile, net, modelOut, hVars, app>>

\* the awaited fetch settles and identifyImage runs to its return
FetchSettles(n) ==
  /\ dPc = "fetching"
  /\ net' = n
  /\ promise' = IF n.kind = "throw" THEN catch(dBuild, n.err)
                ELSE settle(dBuild, proxiedOnResponse(dBuild, n.status, n.body))
  /\ dPc' = "done"
  /\ UNCHANGED <<dBuild, viteKey, imageFile, request, fetches, modelCalls, modelOut, hVars, app>>

\* direct build: the awaited generateContent settles
GenerateContentSettles(out) ==
  /\ dPc = "generating"
  /\ modelOut' = out
  /\ promise' = settle(dBuild, directTry(out))
  /\ dPc' = "done"
  /\ UNCHANGED <<dBuild, viteKey, imageFile, request, fetches, net, modelCalls, hVars, app>>

ModelOuts ==
  { ModelText(t) : t \in ModelTexts } \cup {ModelNoText}
  \cup { ModelThrew(e) : e \in Thrown }
NetOuts ==
  { NetResponse(q[1], q[2]) : q \in Statuses \X ResponseTexts }
  \cup { NetThrew(e) : e \in Thrown }

(***************************************************************************)
(* The App component.  A change or click event runs its handler and the    *)
(* render React flushes before the next event; the render that follows a   *)
(* settled identifyImage is a step of its own.  identifyImage is taken by  *)
(* its outcome: a resolved value or a rejection.                           *)
(***************************************************************************)
MaxSelections == 3
MaxScans == 2

AppFiles == { f \in Files : f.type = "image/png" }
AppOutcomes == {Resolved(Mango), Resolved(Unable), Rejected}

\* the result handleScanImage sets when identifyImage rejects
AppText(build) ==
  IF build = "lo"
  THEN [clientError |-> "ຂໍ້ຜິດພາດຝັ່ງລູກຄ້າ",
        beforeAi |-> "ເກີດຂໍ້ຜິດພາດກ່ອນຕິດຕໍ່ຫາ AI."]
  ELSE [clientError |-> "Client Error",
        beforeAi |-> "An error occurred before contacting the AI."]

\* if (url) URL.revokeObjectURL(url)
revokeObjectURL(url, revoked) ==
  IF url # NoUrl THEN revoked \cup {url} ELSE revoked

\* an effect without its cleanup
cleanupForgets(url, revoked) == revoked

\* the cleanup of the effect on [previewUrl]
cleanup(url, revoked) == revokeObjectURL(url, revoked)

\* image inputs that stay enabled while loading
disabledNever == FALSE

\* the disabled attribute of the image inputs, as last rendered
disabled == app.shownLoading

\* the disabled attribute of the scan button, as last rendered
scanDisabled == app.shownLoading \/ app.selectedFile = NoFile

\* the first render of App
Mount(build) ==
  /\ Idle
  /\ app' = AppState(build)
  /\ UNCHANGED <<hVars, modelCalls, modelOut, dVars>>

\* a file input changes: handleImageSelected(file), then the render with the
\* cleanup of the effect of the previous previewUrl
handleImageSelected(file) ==
  LET url == app.created + 1
      byHandler == revokeObjectURL(app.previewUrl, app.revoked)
  IN /\ app.mounted /\ ~disabled
     /\ app.created < MaxSelections
     /\ app' = [app EXCEPT !.selectedFile = file, !.scanResult = JNull,
                           !.previewUrl = url, !.created = url,
                           !.revoked = cleanup(app.previewUrl, byHandler)]
     /\ UNCHANGED <<hVars, modelCalls, modelOut, dVars>>

\* the scan button is clicked: handleScanImage up to the awaited
\* identifyImage, then the render that shows the spinner
handleScanImage ==
  /\ app.mounted /\ ~scanDisabled
  /\ app.selectedFile # NoFile
  /\ app.scans < MaxScans
  /\ app' = [app EXCEPT !.isLoading = TRUE, !.scanResult = JNull,
                        !.shownLoading = TRUE,
                        !.scans = @ + 1,
                        !.inFlight = @ \cup {[id |-> app.scans + 1,
                                             file |-> app.selectedFile]}]
  /\ UNCHANGED <<hVars, modelCalls, modelOut, dVars>>

\* what handleScanImage stores for an outcome of identifyImage
scanResultOf(build, outcome) ==
  IF outcome.settled = "resolved" THEN outcome.value
  ELSE ErrObj(Str(AppText(build).clientError), Str(AppText(build).beforeAi))

\* the awaited identifyImage settles: try or catch, then finally; the
\* setters of an unmounted component do nothing
IdentifySettles(req, outcome) ==
  LET result == scanResultOf(app.build, outcome) IN
  /\ req \in app.inFlight
  /\ app' = IF app.mounted
            THEN [app EXCEPT !.scanResult = result, !.isLoading = FALSE,
                             !.inFlight = @ \ {req},
                             !.settled = [id |-> req.id, file |-> req.file,
                                          result |-> result]]
            ELSE [app EXCEPT !.inFlight = @ \ {req}]
  /\ UNCHANGED <<hVars, modelCalls, modelOut, dVars>>

\* the render after identifyImage settled
Render ==
  /\ app.mounted /\ app.shownLoading # app.isLoading
  /\ app' = [app EXCEPT !.shownLoading = app.isLoading]
  /\ UNCHANGED <<hVars, modelCalls, modelOut, dVars>>

\* App is torn down: the cleanup of the last effect runs
Unmount ==
  /\ app.mounted
  /\ app' = [app EXCEPT !.mounted = FALSE,
                        !.revoked = cleanup(app.previewUrl, app.revoked)]
  /\ UNCHANGED <<hVars, modelCalls, modelOut, dVars>>

Next ==
  \/ \E build \in {"en", "lo"}, key \in BOOLEAN, ev \in Events : Handler(build, key, ev)
  \/ \E out \in ModelOuts : HandlerResumes(out)
  \/ \E build \in {"proxied", "proxiedLo"}, f \in Files : IdentifyImage(build, FALSE, f)
  \/ \E key \in BOOLEAN, f \in Files : IdentifyImage("direct", key, f)
  \/ ReaderSettles
  \/ \E n \in NetOuts : FetchSettles(n)
  \/ \E out \in ModelOuts : GenerateContentSettles(out)
  \/ \E build \in {"en", "lo"} : Mount(build)
  \/ \E file \in AppFiles : handleImageSelected(file)
  \/ handleScanImage
  \/ \E req \in app.inFlight, outcome \in AppOutcomes : IdentifySettles(req, outcome)
  \/ Render
  \/ Unmount

Spec == Init /\ [][Next]_vars

(***************************************************************************)
(* Properties.                                                             *)
(***************************************************************************)
HandlerDone == hPc = "done"
IdentifyDone == dPc = "done"
ResponseJson == JSONparse(response.body).v
HasErrorCode(v) == v.t = "object" /\ Truthy(v.f.error)
HasName(v) == v.t = "object" /\ v.f.name # Absent
Localized(build, english, lao) == IF build \in {"en", "proxied", "direct"} THEN english ELSE lao

\* the model text, trimmed and fence-stripped, parsed
ModelJson == JSONparse(StripFence(modelOut.text))

\* the failure modes of one identifyImage call
EncodingFailed == dPc # "idle" /\ imageFile.content # "data"
FetchFailed ==
  \/ net.kind = "throw"
  \/ net.kind = "response" /\ (~ok(net.status) \/ ~JSONparse(net.body).ok)
ModelFailed ==
  /\ dBuild = "direct"
  /\ \/ modelOut.kind \in {"throw", "notext"}
     \/ modelOut.kind = "text" /\ ~ModelJson.ok
KeyMissing == dBuild = "direct" /\ ~viteKey

\* C1: identifyImage never rejects; once it has returned, its promise is
\* resolved, and after a failed encoding, a thrown or non-2xx or unparsable
\* fetch, a missing key or a failed model call it is resolved to an object
\* that carries an error code.
C1_NeverRejects ==
  /\ promise.settled # "rejected"
  /\ IdentifyDone =>
       /\ promise.settled = "resolved"
       /\ (EncodingFailed \/ FetchFailed \/ ModelFailed \/ KeyMissing)
            => HasErrorCode(promise.value)

\* a non-2xx response whose body is JSON null: reading errorData.error throws
C1_Witness ==
  /\ IdentifyDone /\ net.kind = "response" /\ ~ok(net.status)
  /\ net.body = <<kwNull>>
  /\ promise.settled = "resolved" /\ HasErrorCode(promise.value)

\* C2: a request whose method is not POST gets 405 "Method Not Allowed",
\* whatever the credential and the body, and the model is not called.
C2_MethodFirst ==
  (hPc # "idle" /\ event.httpMethod # "POST") =>
     /\ HandlerDone
     /\ response.statusCode = 405
     /\ ResponseJson.f.error =
          Str(Localized(hBuild, "Method Not Allowed", "ວິທີການບໍ່ໄດ້ຮັບອະນຸຍາດ"))
     /\ modelCalls = 0

\* not POST, no credential, no body
C2_Witness ==
  /\ HandlerDone /\ event.httpMethod = "GET" /\ ~apiKey /\ ~event.hasBody
  /\ response.statusCode = 405

\* C3: without a configured credential every POST gets 500 "Configuration
\* Error", whatever the body, and the model is not called.
C3_ConfigurationError ==
  (hPc # "idle" /\ event.httpMethod = "POST" /\ ~apiKey) =>
     /\ HandlerDone
     /\ response.statusCode = 500
     /\ ResponseJson.f.error =
          Str(Localized(hBuild, "Configuration Error", "ຂໍ້ຜິດພາດການຕັ້ງຄ່າ"))
     /\ modelCalls = 0

\* no credential, a body that is not JSON
C3_Witness ==
  /\ HandlerDone /\ event.httpMethod = "POST" /\ ~apiKey
  /\ event.hasBody /\ ~JSONparse(event.body).ok
  /\ response.statusCode = 500

\* the body is missing, is not JSON, or lacks imageData or mimeType as strings
BodyInvalid(ev) ==
  LET p == JSONparse(ev.body) IN
  \/ ~ev.hasBody
  \/ ~p.ok
  \/ p.v.f.imageData.t # "string"
  \/ p.v.f.mimeType.t # "string"

\* C4: a POST with the credential configured whose body is missing, is not
\* JSON or does not carry imageData and mimeType as strings gets 400 "Bad
\* Request", and the model is not called.
C4_BadRequest ==
  (hPc # "idle" /\ event.httpMethod = "POST" /\ apiKey /\ BodyInvalid(event)) =>
     /\ HandlerDone
     /\ response.statusCode = 400
     /\ ResponseJson.f.error =
          Str(Localized(hBuild, "Bad Request", "ການຮ້ອງຂໍບໍ່ຖືກຕ້ອງ"))
     /\ modelCalls = 0

\* the handler passed its three checks and called the model
PassedChecks == HandlerDone /\ modelCalls = 1
AiServiceError == Str(Localized(hBuild, "AI Service Error", "ຂໍ້ຜິດພາດຈາກບໍລິການ AI"))

\* C5 as written: on the path past the checks the handler returns 200 with
\* the normalized result whenever the model call returns, and 500 "AI
\* Service Error" when the model call throws.
C5_AsWritten ==
  PassedChecks =>
     /\ modelOut.kind \in {"text", "notext"} => response.statusCode = 200
     /\ modelOut.kind = "throw" =>
          response.statusCode = 500 /\ ResponseJson.f.error = AiServiceError

\* C5, amended: on the path past the checks the handler returns 200 with the
\* parsed model text exactly when the model call returns a text that is JSON
\* after trimming and fence-stripping; when the call throws, returns no text
\* or returns text that is not JSON, it returns 500 "AI Service Error" with
\* the failure's description (a generic message when the thrown value is no
\* Error).  There is no third outcome.
C5_TwoOutcomes ==
  PassedChecks =>
     IF modelOut.kind = "text" /\ ModelJson.ok
     THEN /\ response.statusCode = 200
          /\ JSONparse(response.body) = ModelJson
     ELSE /\ response.statusCode = 500
          /\ ResponseJson.f.error = AiServiceError
          /\ ResponseJson.f.message =
               Str(CASE modelOut.kind = "text" -> SyntaxError.message
                     [] modelOut.kind = "notext" ->
                          "Invalid response format from AI: Text content is not a string."
                     [] modelOut.kind = "throw" /\ modelOut.err.isError -> modelOut.err.message
                     [] OTHER ->
                          Localized(hBuild,
                            "An unexpected error occurred during identification with the AI model.",
                            "ເກີດຂໍ້ຜິດພາດທີ່ບໍ່ຄາດຄິດໃນລະຫວ່າງການກວດສອບດ້ວຍແບບຈຳລອງ AI."))

\* the model call returned text that is not JSON and the handler answered 500
C5_Witness ==
  /\ PassedChecks /\ modelOut.kind = "text" /\ ~ModelJson.ok
  /\ response.statusCode = 500

\* the model text is not JSON after trimming and fence-stripping
ParseFails == modelOut.kind = "text" /\ ~ModelJson.ok

\* C6 as written: for model text that is not JSON the result is an error
\* variant with code "AI Service Error" and a non-empty message, in the
\* handler and in the direct build, and nothing is thrown.
C6_AsWritten ==
  /\ (PassedChecks /\ ParseFails) =>
        /\ ResponseJson.f.error = AiServiceError
        /\ Truthy(ResponseJson.f.message)
  /\ (IdentifyDone /\ dBuild = "direct" /\ ParseFails) =>
        /\ promise.settled = "resolved"
        /\ promise.value.f.error = Str("AI Service Error")
        /\ Truthy(promise.value.f.message)

\* C6, amended: for model text that is not JSON the result is an error
\* variant with a non-empty message that carries the parse failure; its code
\* is "AI Service Error" in the handler (status 500) and "API Error" in the
\* direct build, and nothing is thrown.
C6_ParseFailure ==
  /\ (PassedChecks /\ ParseFails) =>
        /\ response.statusCode = 500
        /\ ResponseJson.f.error = AiServiceError
        /\ ResponseJson.f.message = Str(SyntaxError.message)
        /\ Truthy(ResponseJson.f.message)
  /\ (IdentifyDone /\ dBuild = "direct" /\ ParseFails) =>
        /\ promise.settled = "resolved"
        /\ promise.value.f.error = Str("API Error")
        /\ promise.value.f.message =
             Str("ເກີດຂໍ້ຜິດພາດໃນການເຊື່ອມຕໍ່ API: " \o SyntaxError.message)
        /\ Truthy(promise.value.f.message)

\* the direct build got "{not json" inside a fence
C6_Witness ==
  /\ IdentifyDone /\ dBuild = "direct" /\ modelOut.kind = "text"
  /\ StripFence(modelOut.text) = <<lb, letter>>
  /\ modelOut.text # <<lb, letter>>
  /\ promise.value.f.error = Str("API Error")

\* C7: the result of normalizing a model text never lacks both a name and an
\* error code, in the handler's 200 body and in the direct build's result.
C7_NameOrErrorCode ==
  /\ (PassedChecks /\ modelOut.kind = "text" /\ response.statusCode = 200) =>
        HasName(ResponseJson) \/ HasErrorCode(ResponseJson)
  /\ (IdentifyDone /\ dBuild = "direct" /\ modelOut.kind = "text") =>
        HasName(promise.value) \/ HasErrorCode(promise.value)

\* The ways to read a text as a fenced block that spans the trimmed text:
\* three backticks, a tag of letters (or none), whitespace (or none), a body
\* that is JSON, whitespace (or none), three backticks.
FencedReadings(text) ==
  LET t == trim(text)
      n == Len(t)
      inner == SubSeq(t, 4, n - 3)
      m == Len(inner)
      IsLetter(c) == c.cls = "w"
  IN IF n < 6 \/ ~AllIn(t, 1, 3, IsBacktick) \/ ~AllIn(t, n - 2, n, IsBacktick) THEN {}
     ELSE { [tag |-> SubSeq(inner, 1, q[1]),
             osep |-> SubSeq(inner, q[1] + 1, q[2]),
             body |-> SubSeq(inner, q[2] + 1, q[3])] :
            q \in { q \in (0..m) \X (0..m) \X (1..m) :
                      /\ q[1] <= q[2] /\ q[2] < q[3]
                      /\ AllIn(inner, 1, q[1], IsLetter)
                      /\ AllIn(inner, q[1] + 1, q[2], IsSpace)
                      /\ AllIn(inner, q[3] + 1, m, IsSpace)
                      /\ ~IsSpace(inner[q[2] + 1]) /\ ~IsSpace(inner[q[3]])
                      /\ JSONparse(SubSeq(inner, q[2] + 1, q[3])).ok } }

\* the body is set off from the opening backticks and the tag: by whitespace,
\* or by starting with a character that is no word character
SetOff(r) == r.osep # <<>> \/ ~IsWord(r.body[1])

\* C8 as written: for JSON wrapped in a fence that spans the trimmed text
\* (with or without a tag, with or without a newline before the closing
\* fence) the output is the parse of the body alone.
C8_AsWritten ==
  /\ (PassedChecks /\ modelOut.kind = "text") =>
        \A r \in FencedReadings(modelOut.text) :
           response = Response(200, JSONparse(r.body).v)
  /\ (IdentifyDone /\ dBuild = "direct" /\ modelOut.kind = "text") =>
        \A r \in FencedReadings(modelOut.text) :
           promise = Resolved(JSONparse(r.body).v)

\* C8, amended: for JSON wrapped in such a fence, with the body set off from
\* the opening backticks and tag by whitespace or by its own first character
\* (not a word character), the output is the output for the body alone: in
\* the handler 200 with the parse of the body, in the direct build what the
\* direct build returns for the bare body.
C8_FenceTransparent ==
  /\ (PassedChecks /\ modelOut.kind = "text") =>
        \A r \in FencedReadings(modelOut.text) :
           SetOff(r) => response = Response(200, JSONparse(r.body).v)
  /\ (IdentifyDone /\ dBuild = "direct" /\ modelOut.kind = "text") =>
        \A r \in FencedReadings(modelOut.text) :
           SetOff(r) => promise = settle("direct", directTry(ModelText(r.body)))

\* a tagged fence around the digit, newline on both sides of it
C8_Witness ==
  /\ PassedChecks /\ modelOut.kind = "text"
  /\ trim(modelOut.text) = Fenced(<<letter>>, <<nl>>, <<digit>>, <<nl>>)
  /\ response = Response(200, JNum(1))

\* the model text is JSON as it stands (whitespace around it allowed)
PlainJson == modelOut.kind = "text" /\ JSONparse(modelOut.text).ok

\* C9 as written: for JSON without fences the output is the parse of the
\* text, unchanged, in the handler and in the direct build.
C9_AsWritten ==
  /\ (PassedChecks /\ PlainJson) =>
        /\ response.statusCode = 200
        /\ JSONparse(response.body) = JSONparse(modelOut.text)
  /\ (IdentifyDone /\ dBuild = "direct" /\ PlainJson) =>
        promise = Resolved(JSONparse(modelOut.text).v)

\* C9, amended: for JSON without fences the handler's output is the parse of
\* the text, unchanged; the direct build's output is the parse of the text,
\* except that an error variant whose message is the canonical fallback
\* message gets the localized message, and that JSON null gives the error
\* variant "API Error".
C9_PassThrough ==
  /\ (PassedChecks /\ PlainJson) =>
        /\ response.statusCode = 200
        /\ JSONparse(response.body) = JSONparse(modelOut.text)
  /\ (IdentifyDone /\ dBuild = "direct" /\ PlainJson) =>
        LET v == JSONparse(modelOut.text).v IN
        /\ promise.settled = "resolved"
        /\ IF v.t = "null"
           THEN promise.value.f.error = Str("API Error")
           ELSE IF HasErrorCode(v) /\ v.f.message = Str(CanonicalFallback)
           THEN promise.value = [v EXCEPT !.f.message = Str(LocalizedFallback)]
           ELSE promise.value = v

\* the direct build got an identification with whitespace around it
C9_Witness ==
  /\ IdentifyDone /\ dBuild = "direct" /\ PlainJson
  /\ modelOut.text = <<nl, Lit(Mango), sp>>
  /\ promise = Resolved(Mango)

\* C10: a non-2xx status whose body is not JSON gives exactly the error
\* variant "Network Error" with the message "Request failed with status s".
C10_NetworkError ==
  (/\ IdentifyDone /\ dBuild \in {"proxied", "proxiedLo"}
   /\ net.kind = "response" /\ ~ok(net.status) /\ ~JSONparse(net.body).ok) =>
     promise =
       Resolved(ErrObj(
         Str(Localized(dBuild, "Network Error", "ຂໍ້ຜິດພາດເຄືອຂ່າຍ")),
         Str(Localized(dBuild, "Request failed with status ",
                               "ການຮ້ອງຂໍລົ້ມເຫລວດ້ວຍສະຖານະ ")
             \o ToString(net.status))))

\* status 503 with a body that is not JSON
C10_Witness ==
  /\ IdentifyDone /\ dBuild = "proxied"
  /\ net.kind = "response" /\ net.status = 503 /\ net.body = <<lb, letter>>
  /\ promise.value.f.message = Str("Request failed with status 503")

\* the proxied build got a 2xx response whose body is JSON
OkJson ==
  /\ IdentifyDone /\ dBuild \in {"proxied", "proxiedLo"}
  /\ net.kind = "response" /\ ok(net.status) /\ JSONparse(net.body).ok

\* C11: for a 2xx response whose body is JSON the proxied dispatcher resolves
\* to the parsed body, unchanged.
C11_BodyUnchanged ==
  OkJson => promise = Resolved(JSONparse(net.body).v)

\* status 200 with the Mango identification
C11_Witness ==
  /\ OkJson /\ net.status = 200 /\ net.body = <<Lit(Mango)>>
  /\ promise = Resolved(Mango)

\* the model text parsed to an object
ParsedObject == modelOut.kind = "text" /\ ModelJson.ok /\ ModelJson.v.t = "object"
\* it is an error variant whose message is the canonical fallback message
CanonicalError ==
  HasErrorCode(ModelJson.v) /\ ModelJson.v.f.message = Str(CanonicalFallback)

\* C12 as written: wherever the model text is normalized, in the direct build
\* and in the handler, an error variant with the canonical fallback message
\* comes back with the localized message and every other message unchanged.
C12_AsWritten ==
  /\ (IdentifyDone /\ dBuild = "direct" /\ ParsedObject) =>
        promise.value.f.message =
          IF CanonicalError THEN Str(LocalizedFallback) ELSE ModelJson.v.f.message
  /\ (PassedChecks /\ ParsedObject) =>
        ResponseJson.f.message =
          IF CanonicalError THEN Str(LocalizedFallback) ELSE ModelJson.v.f.message

\* C12, amended: in the direct build an error variant with the canonical
\* fallback message comes back with the localized message, and every other
\* message and every success variant unchanged; the handler replaces nothing
\* and returns every message as parsed.
C12_DirectOnly ==
  /\ (IdentifyDone /\ dBuild = "direct" /\ ParsedObject) =>
        promise.value.f.message =
          IF CanonicalError THEN Str(LocalizedFallback) ELSE ModelJson.v.f.message
  /\ (PassedChecks /\ ParsedObject) =>
        ResponseJson.f.message = ModelJson.v.f.message

\* the direct build got the canonical fallback message inside a fence
C12_Witness ==
  /\ IdentifyDone /\ dBuild = "direct" /\ ParsedObject /\ CanonicalError
  /\ trim(modelOut.text) = Fenced(<<letter>>, <<nl>>, <<Lit(Unable)>>, <<nl>>)
  /\ promise.value.f.message = Str(LocalizedFallback)

\* C13: a value thrown by the proxied build's fetch becomes the error variant
\* "Client-Side Error"; its message is the description of a thrown Error and
\* a generic message otherwise, and it is never empty or absent.
C13_ClientSideError ==
  (IdentifyDone /\ dBuild \in {"proxied", "proxiedLo"} /\ net.kind = "throw") =>
     /\ promise.settled = "resolved"
     /\ promise.value.f.error =
          Str(Localized(dBuild, "Client-Side Error", "ຂໍ້ຜິດພາດຝັ່ງລູກຄ້າ"))
     /\ promise.value.f.message =
          Str(IF net.err.isError THEN net.err.message
              ELSE Localized(dBuild,
                     "An unexpected error occurred while communicating with the identification service.",
                     "ເກີດຂໍ້ຜິດພາດທີ່ບໍ່ຄາດຄິດໃນຂະນະສື່ສານກັບບໍລິການກວດສອບ."))
     /\ Truthy(promise.value.f.message)

\* the handler answered before its try block: 405, 400, or the 500 of a
\* missing credential
EarlyOutcome ==
  /\ HandlerDone
  /\ \/ response.statusCode \in {405, 400}
     \/ ResponseJson.f.error =
          Str(Localized(hBuild, "Configuration Error", "ຂໍ້ຜິດພາດການຕັ້ງຄ່າ"))

\* C14: no retries. One handler invocation calls the model at most once, and
\* only for a POST with the credential and a body that parsed, never when it
\* answers 405, 400 or the Configuration Error 500; one identifyImage call
\* issues at most one HTTP request and at most one model call, and none when
\* the encoding of the image fails; a failed model call ends the invocation
\* with an error result.
C14_NoRetries ==
  /\ modelCalls <= 1 /\ fetches <= 1
  /\ (hPc # "idle" /\ modelCalls = 1) =>
        /\ event.httpMethod = "POST" /\ apiKey
        /\ event.hasBody /\ JSONparse(event.body).ok
  /\ EarlyOutcome => modelCalls = 0
  /\ EncodingFailed => fetches = 0 /\ modelCalls = 0
  /\ (PassedChecks /\ (modelOut.kind # "text" \/ ~ModelJson.ok)) =>
        /\ response.statusCode = 500 /\ HasErrorCode(ResponseJson)
  /\ (IdentifyDone /\ (FetchFailed \/ ModelFailed)) =>
        /\ promise.settled = "resolved" /\ HasErrorCode(promise.value)
        /\ fetches + modelCalls = 1

\* the model call of a handler invocation threw: one call, then 500
C14_Witness ==
  /\ PassedChecks /\ modelOut.kind = "throw"
  /\ response.statusCode = 500 /\ HasErrorCode(ResponseJson)

\* the proxied build got a response whose status is not 2xx
NotOk ==
  /\ IdentifyDone /\ dBuild \in {"proxied", "proxiedLo"}
  /\ net.kind = "response" /\ ~ok(net.status)
IsText(p) == p.t = "string" /\ p.s # ""

\* C16: for a response that is not 2xx, whatever its body, the proxied build
\* resolves to an error variant whose error code and message are both
\* non-empty strings; when the body is an object, a missing or empty error
\* becomes "API Error" and a missing or empty message becomes "Request failed
\* with status <status>".
C16_NonOkIsError ==
  NotOk =>
    LET p == JSONparse(net.body)
        T == ProxiedText(dBuild, net.status)
    IN /\ promise.settled = "resolved"
       /\ IsText(promise.value.f.error)
       /\ IsText(promise.value.f.message)
       /\ (p.ok /\ p.v.t = "object" /\ ~Truthy(p.v.f.error)) =>
             promise.value.f.error = Str(T.apiError)
       /\ (p.ok /\ p.v.t = "object" /\ ~Truthy(p.v.f.message)) =>
             promise.value.f.message = Str(T.requestFailed)

\* the preview URLs created so far
Handles == 1 .. app.created

\* C15: while App is mounted every preview URL but the displayed one has been
\* revoked and the displayed one has not; once App is torn down every preview
\* URL that was created has been revoked.
C15_HandlesReleased ==
  /\ app.mounted => app.revoked = Handles \ {app.previewUrl}
  /\ (app # NoApp /\ ~app.mounted) => app.revoked = Handles

\* two selections, then teardown
C15_Witness ==
  /\ app # NoApp /\ ~app.mounted
  /\ app.created = 2 /\ app.previewUrl = 2 /\ app.revoked = {1, 2}

\* C17: while App is mounted isLoading is true exactly while a call of
\* identifyImage is in flight; at most one call is in flight, it is for the
\* selected file, and the image inputs and the scan button are disabled
\* meanwhile; a scanResult that is not null is the result of the latest call,
\* and that call was for the selected file.
C17_OneRequest ==
  app.mounted =>
    /\ app.isLoading <=> app.inFlight # {}
    /\ Cardinality(app.inFlight) <= 1
    /\ \A req \in app.inFlight :
         /\ req.id = app.scans /\ req.file = app.selectedFile
         /\ disabled /\ scanDisabled
    /\ app.scanResult # JNull =>
         /\ app.settled.id = app.scans
         /\ app.settled.file = app.selectedFile
         /\ app.scanResult = app.settled.result

\* the second scan of a file was rejected and its error is displayed
C17_Witness ==
  /\ app.mounted /\ app.scans = 2 /\ app.inFlight = {} /\ ~app.isLoading
  /\ app.settled.id = 2
  /\ app.scanResult =
       ErrObj(Str(AppText(app.build).clientError), Str(AppText(app.build).beforeAi))
====
